---- MODULE Spec2Model ----
(***************************************************************************)
(* Model of the MenuGenChina extraction back ends:                         *)
(*   api/menu.py              progressive (batched) Gemini extraction      *)
(*   api/ocr.py               single-shot Gemini extraction                *)
(*   ocr_server_google.py     single-shot Vision OCR with ocr_cache        *)
(*   services/ocr/app/main.py FastAPI /ocr endpoint                        *)
(*   services/ocr/app/ocr.py  build_provider (provider selection)          *)
(* Each handler is split at its one blocking network call: the Begin       *)
(* action runs the handler up to requests.post, the Finish action runs it  *)
(* from the provider's answer to the end of the handler.                   *)
(***************************************************************************)
EXTENDS Integers, Sequences, FiniteSets, TLC

VARIABLES
    pc,          \* "idle" | "calling" | "done": position of the handler
    endpoint,    \* which handler is serving the current request
    req,         \* the request payload being served
    calls,       \* provider calls issued for the current request
    answer,      \* the provider's answer to the call, once it arrived
    resp,        \* [statuses, body]: status lines and body written so far
    prev,        \* summary of the previous exchange of this process
    gemini_key,  \* os.environ GEMINI_API_KEY / gemini_api_key.json present
    vision_key,  \* os.environ GOOGLE_VISION_API_KEY present
    translate_key,  \* os.environ GOOGLE_TRANSLATE_API_KEY present
    ocr_cache,   \* ocr_server_google.ocr_cache: image hash -> result
    clock,       \* datetime.now(), advancing with every request
    cfg,         \* environment seen by build_provider
    built,       \* outcome of build_provider
    ran,         \* outcome of the built provider's run()
    raw,         \* a provider text handed to the fence stripping step
    stripped     \* results of applying the fence stripping step to raw

vars == <<pc, endpoint, req, calls, answer, resp, prev, gemini_key, vision_key, translate_key,
          ocr_cache, clock, cfg, built, ran, raw, stripped>>

exchVars == <<pc, endpoint, req, calls, answer, resp, prev, gemini_key, vision_key, translate_key,
              ocr_cache, clock>>
selVars == <<cfg, built, ran>>
fenceVars == <<raw, stripped>>

----------------------------------------------------------------------------
(* Bounds *)
MaxBatch == 3      \* largest batch_number a caller sends
MaxItems == 2      \* most menu items in one provider answer
MaxTail == 6       \* characters following the opening fence marker
MaxClock == 3      \* requests timestamped by the Vision OCR server
MaxDishes == 2     \* most dishes in one batch-dish-details request

----------------------------------------------------------------------------
(* Provider texts.  A text is a sequence of tokens; a token is either one  *)
(* character or one whole serialised JSON document (tag "doc").            *)

Ch(s) == [c |-> s]
DocTok(d) == [c |-> "doc", doc |-> d]

BT == Ch("backtick")
NL == Ch("newline")
SP == Ch("space")
XX == Ch("x")

IsSpace(t) == t = NL \/ t = SP

\* str.startswith(fence), the fence being three backticks
StartsWithFence(t) ==
    Len(t) >= 3 /\ t[1] = BT /\ t[2] = BT /\ t[3] = BT

\* index of the first newline of t, 0 when there is none
FirstNL(t) ==
    IF \E i \in 1..Len(t) : t[i] = NL
    THEN CHOOSE i \in 1..Len(t) :
            t[i] = NL /\ \A j \in 1..(i-1) : t[j] # NL
    ELSE 0

\* positions where the separator (newline, fence) starts
FenceSepAt(t, i) ==
    /\ i + 3 <= Len(t)
    /\ t[i] = NL /\ t[i+1] = BT /\ t[i+2] = BT /\ t[i+3] = BT

\* str.rsplit(newline + fence, 1)[0]: the text before the last separator, the whole
\* text when the separator does not occur
RSplitFence(t) ==
    IF \E i \in 1..Len(t) : FenceSepAt(t, i)
    THEN LET p == CHOOSE i \in 1..Len(t) :
                    FenceSepAt(t, i) /\ \A j \in (i+1)..Len(t) : ~FenceSepAt(t, j)
         IN SubSeq(t, 1, p - 1)
    ELSE t

\* str.strip()
RECURSIVE LStrip(_)
LStrip(t) == IF t # <<>> /\ IsSpace(Head(t)) THEN LStrip(Tail(t)) ELSE t

RECURSIVE RStrip(_)
RStrip(t) ==
    IF t # <<>> /\ IsSpace(t[Len(t)]) THEN RStrip(SubSeq(t, 1, Len(t) - 1)) ELSE t

Strip(t) == RStrip(LStrip(t))

\* "Remove markdown code blocks if present": the result is [ok, text];
\* ok = FALSE is the IndexError of split(newline, 1)[1] on a one-line text.
StripFence(t) ==
    IF StartsWithFence(t)
    THEN IF FirstNL(t) = 0
         THEN [ok |-> FALSE, text |-> t]
         ELSE [ok |-> TRUE,
               text |-> Strip(RSplitFence(SubSeq(t, FirstNL(t) + 1, Len(t))))]
    ELSE [ok |-> TRUE, text |-> t]

----------------------------------------------------------------------------
(* Fence stripping as a pure function: texts that begin with a fence.      *)

FenceAlphabet == {BT, NL, SP, XX}

RECURSIVE SeqsUpTo(_, _)
SeqsUpTo(S, n) ==
    IF n = 0 THEN {<<>>}
    ELSE LET shorter == SeqsUpTo(S, n - 1)
         IN shorter \cup {Append(s, e) : s \in shorter, e \in S}

FencedTexts == {<<BT, BT, BT>> \o tail : tail \in SeqsUpTo(FenceAlphabet, MaxTail)}

\* one more application of the strip step to the latest result
FenceApply ==
    /\ Len(stripped) < 2
    /\ stripped # <<>> => stripped[Len(stripped)].ok
    /\ stripped' = Append(stripped,
                     StripFence(IF stripped = <<>> THEN raw
                                ELSE stripped[Len(stripped)].text))
    /\ UNCHANGED <<raw, exchVars, selVars>>

----------------------------------------------------------------------------
(* JSON values.  An object is a function from its keys to tagged values;   *)
(* a key the provider omitted is simply not in the DOMAIN.                 *)

JNull == [t |-> "null"]
JBool(b) == [t |-> "bool", b |-> b]
JInt(n) == [t |-> "int", n |-> n]
JList(l) == [t |-> "list", items |-> l]
JAbsent == [t |-> "absent"]

\* a JSON object holding the fields of full that are not JAbsent
Obj(full) ==
    [kind |-> "object",
     f |-> [k \in {k \in DOMAIN full : full[k] # JAbsent} |-> full[k]]]

JArray == [kind |-> "array"]

\* dict.get(key, default)
Get(d, key, default) == IF key \in DOMAIN d THEN d[key] ELSE default

\* json.loads: surrounding whitespace is accepted, anything but exactly one
\* document is a JSONDecodeError
JsonLoads(text) ==
    LET t == Strip(text)
    IN IF Len(t) = 1 /\ t[1].c = "doc"
       THEN [ok |-> TRUE, doc |-> t[1].doc]
       ELSE [ok |-> FALSE, doc |-> JArray]

----------------------------------------------------------------------------
(* Requests, provider answers and responses shared by the handlers.        *)

\* the image field of a request: an optional data-URL prefix and base64 data
\* of a real menu photo ("menu"), of bytes that are no image ("junk"), or
\* text that is not base64 at all ("notb64")
ImageData == {"menu", "junk", "notb64"}
Images == {[prefix |-> FALSE, data |-> d] : d \in ImageData}
              \cup {[prefix |-> TRUE, data |-> "menu"]}

\* if ',' in image_data: image_data = image_data.split(',')[1]
DropDataUrlPrefix(image) == image.data

\* base64.b64decode succeeds
B64Decodes(data) == data # "notb64"

NoReq == [none |-> TRUE]
NoImage == [prefix |-> FALSE, data |-> "none"]
NoAnswer == [kind |-> "none"]
NoResp == [statuses |-> <<>>, body |-> [kind |-> "none"]]
NoPrev == [endpoint |-> "none"]

\* {'error': message}; status is the HTTP status code the message quotes,
\* 0 when it quotes none
ErrorBody(msg, status) == [kind |-> "error", error |-> msg, status |-> status]

Fail500(msg, status) == [statuses |-> <<500>>, body |-> ErrorBody(msg, status)]

\* an exception raised after send_response(200): the handler's except
\* clause sends a second status line
FailAfter200(msg) == [statuses |-> <<200, 500>>, body |-> ErrorBody(msg, 0)]

ItemLists == {[i \in 1..n |-> [dish |-> i]] : n \in 0..MaxItems}

\* JSON documents a provider may put into its text
BatchDocs ==
    {Obj([menu_items |-> mi, has_more |-> hm, total_dishes_estimate |-> te]) :
        mi \in {JAbsent, JNull} \cup {JList(l) : l \in ItemLists},
        hm \in {JAbsent, JBool(TRUE), JBool(FALSE)},
        te \in {JAbsent, JInt(0), JInt(1), JInt(5)}}
CountDocs ==
    {Obj([total_dishes |-> td]) :
        td \in {JAbsent, JNull, JInt(-1), JInt(0), JInt(4)}}
Docs == BatchDocs \cup CountDocs \cup {JArray}

\* how the provider wraps a document d into its text
Bare(d) == <<DocTok(d)>>
Fenced(d) == <<BT, BT, BT, XX, NL, DocTok(d), NL, BT, BT, BT>>
FencedOpen(d) == <<BT, BT, BT, XX, NL, DocTok(d)>>
FencedOneLine(d) == <<BT, BT, BT, DocTok(d), BT, BT, BT>>
FencedTwice(d) ==
    <<BT, BT, BT, NL, BT, BT, BT, NL, DocTok(d), NL, BT, BT, BT, NL, BT, BT, BT>>

SampleDocs ==
    {Obj([menu_items |-> JList(<<>>), has_more |-> JBool(FALSE),
          total_dishes_estimate |-> JAbsent]),
     Obj([menu_items |-> JList(<<[dish |-> 1]>>), has_more |-> JBool(TRUE),
          total_dishes_estimate |-> JInt(5)])}

ProviderTexts ==
    {Bare(d) : d \in Docs}
    \cup {Fenced(d) : d \in SampleDocs}
    \cup {FencedOpen(d) : d \in SampleDocs}
    \cup {FencedOneLine(d) : d \in SampleDocs}
    \cup {FencedTwice(d) : d \in SampleDocs}
    \cup {<<XX>>, <<>>, <<SP, DocTok(JArray), NL>>}

\* HTTP status codes a provider answers with
ProviderStatuses == {200, 204, 400, 503}

\* response.raise_for_status() raises for 4xx and 5xx only
RaisesForStatus(status) == status >= 400 /\ status < 600

\* Gemini answers: no answer in time, a connection failure, a non-200
\* status, or 200 with a generateContent envelope
GeminiAnswers ==
    {[kind |-> "timeout"], [kind |-> "connerr"]}
    \cup {[kind |-> "http", status |-> st] : st \in ProviderStatuses \ {200}}
    \cup {[kind |-> "http", status |-> 200, envelope |-> e] :
             e \in {"no_candidates", "no_content", "empty_parts"}}
    \cup {[kind |-> "http", status |-> 200, envelope |-> "text", text |-> t] :
             t \in ProviderTexts}

----------------------------------------------------------------------------
(* api/menu.py: handler.do_POST                                            *)

dishes_per_batch == 2

\* request payloads (a dict: optional keys may be missing)
MenuRequests ==
    {[count_only |-> TRUE, image |-> i] : i \in Images}
    \cup {[image |-> i, total_dishes |-> td] : i \in Images, td \in {0, 1}}
    \cup {[batch_number |-> b, image |-> i] : b \in (-1)..MaxBatch, i \in Images}
    \cup {[batch_number |-> b, image |-> i, total_dishes |-> td] :
             b \in 1..MaxBatch, i \in Images, td \in {0, 1}}

batch_number(payload) == Get(payload, "batch_number", 1)
count_only(payload) == Get(payload, "count_only", FALSE)

\* variant of start_dish that counts batches from 0
start_dish_off_by_one(payload) == batch_number(payload) * dishes_per_batch + 1

start_dish(payload) == (batch_number(payload) - 1) * dishes_per_batch + 1
end_dish(payload) == start_dish(payload) + dishes_per_batch - 1

\* variant of total_context that embeds the hint whenever the key is present
total_context_when_present(payload) ==
    IF "total_dishes" \in DOMAIN payload
    THEN JInt(payload["total_dishes"])
    ELSE JAbsent

\* total_context: the hint is embedded only when total_dishes is truthy
total_context(payload) ==
    IF "total_dishes" \in DOMAIN payload /\ payload["total_dishes"] # 0
    THEN JInt(payload["total_dishes"])
    ELSE JAbsent

\* the prompt sent to the provider, reduced to the values interpolated in it
MenuPrompt(payload) ==
    IF count_only(payload)
    THEN [mode |-> "count_only"]
    ELSE [mode |-> "windowed", start_dish |-> start_dish(payload),
          end_dish |-> end_dish(payload), total_context |-> total_context(payload)]

\* requests.post(gemini_url, json=payload_data, timeout=25)
MenuCall(payload) ==
    [model |-> "gemini-2.5-flash-lite", prompt |-> MenuPrompt(payload),
     image |-> DropDataUrlPrefix(payload.image), timeout |-> 25]

\* variants of MenuBody with a slip in one field of the response
MenuBodyNegatesMore(payload, doc) ==
    IF doc.kind # "object"
    THEN FailAfter200("AttributeError")
    ELSE IF count_only(payload)
    THEN [statuses |-> <<200>>,
          body |-> [kind |-> "count",
                    total_dishes |-> Get(doc.f, "total_dishes", JInt(0))]]
    ELSE LET menu_items == Get(doc.f, "menu_items", JList(<<>>))
         IN IF menu_items.t # "list"
            THEN FailAfter200("TypeError")
            ELSE [statuses |-> <<200>>,
                  body |-> [kind |-> "batch",
                            menu_items |-> menu_items,
                            has_more |-> JBool(Get(doc.f, "has_more", JBool(FALSE)) = JBool(FALSE)),
                            total_dishes_estimate |->
                                Get(doc.f, "total_dishes_estimate",
                                    JInt(Len(menu_items.items))),
                            batch_number |-> batch_number(payload),
                            detected_lang |-> "zh"]]

MenuBodyDefaultsMoreTrue(payload, doc) ==
    IF doc.kind # "object"
    THEN FailAfter200("AttributeError")
    ELSE IF count_only(payload)
    THEN [statuses |-> <<200>>,
          body |-> [kind |-> "count",
                    total_dishes |-> Get(doc.f, "total_dishes", JInt(0))]]
    ELSE LET menu_items == Get(doc.f, "menu_items", JList(<<>>))
         IN IF menu_items.t # "list"
            THEN FailAfter200("TypeError")
            ELSE [statuses |-> <<200>>,
                  body |-> [kind |-> "batch",
                            menu_items |-> menu_items,
                            has_more |-> Get(doc.f, "has_more", JBool(TRUE)),
                            total_dishes_estimate |->
                                Get(doc.f, "total_dishes_estimate",
                                    JInt(Len(menu_items.items))),
                            batch_number |-> batch_number(payload),
                            detected_lang |-> "zh"]]

MenuBodyDefaultsTotalZero(payload, doc) ==
    IF doc.kind # "object"
    THEN FailAfter200("AttributeError")
    ELSE IF count_only(payload)
    THEN [statuses |-> <<200>>,
          body |-> [kind |-> "count",
                    total_dishes |-> Get(doc.f, "total_dishes", JInt(0))]]
    ELSE LET menu_items == Get(doc.f, "menu_items", JList(<<>>))
         IN IF menu_items.t # "list"
            THEN FailAfter200("TypeError")
            ELSE [statuses |-> <<200>>,
                  body |-> [kind |-> "batch",
                            menu_items |-> menu_items,
                            has_more |-> Get(doc.f, "has_more", JBool(FALSE)),
                            total_dishes_estimate |->
                                Get(doc.f, "total_dishes_estimate",
                                    JInt(0)),
                            batch_number |-> batch_number(payload),
                            detected_lang |-> "zh"]]

MenuBodyPadsWindow(payload, doc) ==
    IF doc.kind # "object"
    THEN FailAfter200("AttributeError")
    ELSE IF count_only(payload)
    THEN [statuses |-> <<200>>,
          body |-> [kind |-> "count",
                    total_dishes |-> Get(doc.f, "total_dishes", JInt(0))]]
    ELSE LET menu_items == Get(doc.f, "menu_items", JList(<<>>))
         IN IF menu_items.t # "list"
            THEN FailAfter200("TypeError")
            ELSE [statuses |-> <<200>>,
                  body |-> [kind |-> "batch",
                            menu_items |-> IF menu_items.items = <<>> THEN JList(<<[dish |-> 1]>>) ELSE menu_items,
                            has_more |-> Get(doc.f, "has_more", JBool(FALSE)),
                            total_dishes_estimate |->
                                Get(doc.f, "total_dishes_estimate",
                                    JInt(Len(menu_items.items))),
                            batch_number |-> batch_number(payload),
                            detected_lang |-> "zh"]]

\* lines 252-272: the body written after send_response(200)
MenuBody(payload, doc) ==
    IF doc.kind # "object"
    THEN FailAfter200("AttributeError")
    ELSE IF count_only(payload)
    THEN [statuses |-> <<200>>,
          body |-> [kind |-> "count",
                    total_dishes |-> Get(doc.f, "total_dishes", JInt(0))]]
    ELSE LET menu_items == Get(doc.f, "menu_items", JList(<<>>))
         IN IF menu_items.t # "list"
            THEN FailAfter200("TypeError")
            ELSE [statuses |-> <<200>>,
                  body |-> [kind |-> "batch",
                            menu_items |-> menu_items,
                            has_more |-> Get(doc.f, "has_more", JBool(FALSE)),
                            total_dishes_estimate |->
                                Get(doc.f, "total_dishes_estimate",
                                    JInt(Len(menu_items.items))),
                            batch_number |-> batch_number(payload),
                            detected_lang |-> "zh"]]

\* variant of GeminiText that reads an envelope without candidates as an
\* empty object
GeminiTextEmptyOnNoCandidates(ans) ==
    CASE ans.envelope = "no_candidates" ->
            [ok |-> TRUE, doc |-> Obj([menu_items |-> JAbsent])]
      [] ans.envelope = "no_content" ->
            [ok |-> FALSE, err |-> "Unexpected Gemini response format"]
      [] ans.envelope = "empty_parts" ->
            [ok |-> FALSE, err |-> "list index out of range"]
      [] OTHER ->
            LET sf == StripFence(Strip(ans.text))
            IN IF ~sf.ok
               THEN [ok |-> FALSE, err |-> "list index out of range"]
               ELSE LET js == JsonLoads(sf.text)
                    IN IF ~js.ok
                       THEN [ok |-> FALSE, err |-> "JSON parse error"]
                       ELSE [ok |-> TRUE, doc |-> js.doc]

\* variant of GeminiText that reads a text that is no JSON as an empty object
GeminiTextDefaultsOnError(ans) ==
    CASE ans.envelope = "no_candidates" ->
            [ok |-> FALSE, err |-> "No response from Gemini"]
      [] ans.envelope = "no_content" ->
            [ok |-> FALSE, err |-> "Unexpected Gemini response format"]
      [] ans.envelope = "empty_parts" ->
            [ok |-> FALSE, err |-> "list index out of range"]
      [] OTHER ->
            LET sf == StripFence(Strip(ans.text))
            IN IF ~sf.ok
               THEN [ok |-> FALSE, err |-> "list index out of range"]
               ELSE LET js == JsonLoads(sf.text)
                    IN IF ~js.ok
                       THEN [ok |-> TRUE, doc |-> Obj([menu_items |-> JAbsent])]
                       ELSE [ok |-> TRUE, doc |-> js.doc]

\* lines 224-250: envelope, fence stripping and JSON parsing of a 200 answer
GeminiText(ans) ==
    CASE ans.envelope = "no_candidates" ->
            [ok |-> FALSE, err |-> "No response from Gemini"]
      [] ans.envelope = "no_content" ->
            [ok |-> FALSE, err |-> "Unexpected Gemini response format"]
      [] ans.envelope = "empty_parts" ->
            [ok |-> FALSE, err |-> "list index out of range"]
      [] OTHER ->
            LET sf == StripFence(Strip(ans.text))
            IN IF ~sf.ok
               THEN [ok |-> FALSE, err |-> "list index out of range"]
               ELSE LET js == JsonLoads(sf.text)
                    IN IF ~js.ok
                       THEN [ok |-> FALSE, err |-> "JSON parse error"]
                       ELSE [ok |-> TRUE, doc |-> js.doc]

\* str(e) of what requests raises for the call to f"{gemini_url}?key={api_key}",
\* named by its class.  The message of a ConnectionError ("... Max retries
\* exceeded with url: <path>?key=<api_key> ...") and of the HTTPError of
\* raise_for_status ("<status> ... Error: ... for url: <url>?key=<api_key>")
\* quotes the URL of the request with its query string; the message of a
\* ReadTimeout ("... Read timed out. (read timeout=<n>)") does not.
ExceptionTexts == {"ConnectionError", "HTTPError", "ReadTimeout"}
QuotesRequestUrl(exc) == exc \in {"ConnectionError", "HTTPError"}

\* lines 217-219: f"Failed to connect to Gemini API: {str(e)}"
FailedToConnect(exc) == "Failed to connect to Gemini API: " \o exc

\* variant of MenuRespond that leaves the status check to raise_for_status
MenuRespondRaisesForStatus(payload, ans) ==
    CASE ans.kind = "timeout" -> Fail500("Gemini API request timed out", 0)
      [] ans.kind = "connerr" -> Fail500(FailedToConnect("ConnectionError"), 0)
      [] ans.kind = "http" /\ RaisesForStatus(ans.status) ->
            Fail500("Gemini API error", ans.status)
      [] ans.kind = "http" /\ ans.status # 200 -> Fail500("JSON parse error", 0)
      [] OTHER ->
            LET txt == GeminiText(ans)
            IN IF txt.ok THEN MenuBody(payload, txt.doc)
               ELSE Fail500(txt.err, 0)

\* lines 196-292: from the provider's answer to the end of the handler
MenuRespond(payload, ans) ==
    CASE ans.kind = "timeout" -> Fail500("Gemini API request timed out", 0)
      [] ans.kind = "connerr" -> Fail500(FailedToConnect("ConnectionError"), 0)
      [] ans.kind = "http" /\ ans.status # 200 ->
            Fail500("Gemini API error", ans.status)
      [] OTHER ->
            LET txt == GeminiText(ans)
            IN IF txt.ok THEN MenuBody(payload, txt.doc)
               ELSE Fail500(txt.err, 0)

\* lines 30-202: up to the provider call
MenuBeginOn(requests) ==
    /\ pc = "idle"
    /\ \E payload \in requests :
         /\ req' = payload
         /\ endpoint' = "menu"
         /\ answer' = NoAnswer
         /\ IF ~gemini_key
            THEN /\ resp' = Fail500("GEMINI_API_KEY not configured", 0)
                 /\ calls' = <<>>
                 /\ pc' = "done"
            ELSE IF ~B64Decodes(DropDataUrlPrefix(payload.image))
            THEN /\ resp' = Fail500("binascii.Error", 0)
                 /\ calls' = <<>>
                 /\ pc' = "done"
            ELSE /\ resp' = NoResp
                 /\ calls' = <<MenuCall(payload)>>
                 /\ pc' = "calling"
    /\ UNCHANGED <<prev, gemini_key, vision_key, translate_key, ocr_cache, clock>>
    /\ UNCHANGED <<selVars, fenceVars>>

MenuBegin == MenuBeginOn(MenuRequests)

\* variant of MenuFinish that remembers a final batch: once an image's
\* session ended, later batches of that image are answered as empty and final
MenuFinishRemembersFinal ==
    /\ pc = "calling" /\ endpoint = "menu"
    /\ \E ans \in GeminiAnswers :
         /\ answer' = ans
         /\ resp' = IF /\ prev.endpoint = "menu" /\ prev.outcome = "terminal"
                       /\ prev.image = req.image /\ ~count_only(req)
                    THEN MenuBody(req, Obj([menu_items |-> JList(<<>>)]))
                    ELSE MenuRespond(req, ans)
    /\ pc' = "done"
    /\ UNCHANGED <<endpoint, req, calls, prev, gemini_key, vision_key, translate_key, ocr_cache, clock>>
    /\ UNCHANGED <<selVars, fenceVars>>

\* variant of MenuFinish that repeats the call once after a failed answer
MenuFinishRetries ==
    /\ pc = "calling" /\ endpoint = "menu"
    /\ \E ans \in GeminiAnswers :
         /\ answer' = ans
         /\ IF MenuRespond(req, ans).statuses # <<200>> /\ Len(calls) < 2
            THEN /\ calls' = Append(calls, MenuCall(req))
                 /\ resp' = NoResp
                 /\ pc' = "calling"
            ELSE /\ calls' = calls
                 /\ resp' = MenuRespond(req, ans)
                 /\ pc' = "done"
    /\ UNCHANGED <<endpoint, req, prev, gemini_key, vision_key, translate_key, ocr_cache, clock>>
    /\ UNCHANGED <<selVars, fenceVars>>

\* variant of MenuFinish in which a failed exchange leaves the process
\* without its credential
MenuFinishForgetsKey ==
    /\ pc = "calling" /\ endpoint = "menu"
    /\ \E ans \in GeminiAnswers :
         /\ answer' = ans
         /\ resp' = MenuRespond(req, ans)
         /\ gemini_key' = (MenuRespond(req, ans).statuses = <<200>>)
    /\ pc' = "done"
    /\ UNCHANGED <<endpoint, req, calls, prev, vision_key, translate_key, ocr_cache, clock>>
    /\ UNCHANGED <<selVars, fenceVars>>

MenuFinish ==
    /\ pc = "calling" /\ endpoint = "menu"
    /\ \E ans \in GeminiAnswers :
         /\ answer' = ans
         /\ resp' = MenuRespond(req, ans)
    /\ pc' = "done"
    /\ UNCHANGED <<endpoint, req, calls, prev, gemini_key, vision_key, translate_key, ocr_cache, clock>>
    /\ UNCHANGED <<selVars, fenceVars>>

----------------------------------------------------------------------------
(* api/ocr.py: handler.do_POST (single-shot Gemini extraction)             *)

OcrRequests == {[image |-> i] : i \in Images}

\* requests.post(gemini_url, json=payload_data, timeout=9)
OcrCall(payload) ==
    [model |-> "gemini-2.0-flash-exp", prompt |-> [mode |-> "full"],
     image |-> DropDataUrlPrefix(payload.image), timeout |-> 9]

\* lines 100-113
OcrBody(doc) ==
    IF doc.kind # "object"
    THEN FailAfter200("AttributeError")
    ELSE [statuses |-> <<200>>,
          body |-> [kind |-> "full",
                    menu_items |-> Get(doc.f, "menu_items", JList(<<>>)),
                    detected_lang |-> "zh"]]

\* lines 79-127: from the provider's answer to the end of the handler.  A
\* non-200 status that raise_for_status lets through has no JSON body.
OcrRespond(ans) ==
    CASE ans.kind = "timeout" -> Fail500("ReadTimeout", 0)
      [] ans.kind = "connerr" -> Fail500("ConnectionError", 0)
      [] ans.kind = "http" /\ RaisesForStatus(ans.status) ->
            Fail500("HTTPError", ans.status)
      [] ans.kind = "http" /\ ans.status # 200 -> Fail500("JSON parse error", 0)
      [] OTHER ->
            LET txt == GeminiText(ans)
            IN IF txt.ok THEN OcrBody(txt.doc) ELSE Fail500(txt.err, 0)

\* lines 9-78: up to the provider call
OcrBeginOn(requests) ==
    /\ pc = "idle"
    /\ \E payload \in requests :
         /\ req' = payload
         /\ endpoint' = "ocr"
         /\ answer' = NoAnswer
         /\ IF ~gemini_key
            THEN /\ resp' = Fail500("GEMINI_API_KEY not configured", 0)
                 /\ calls' = <<>>
                 /\ pc' = "done"
            ELSE IF ~B64Decodes(DropDataUrlPrefix(payload.image))
            THEN /\ resp' = Fail500("binascii.Error", 0)
                 /\ calls' = <<>>
                 /\ pc' = "done"
            ELSE /\ resp' = NoResp
                 /\ calls' = <<OcrCall(payload)>>
                 /\ pc' = "calling"
    /\ UNCHANGED <<prev, gemini_key, vision_key, translate_key, ocr_cache, clock>>
    /\ UNCHANGED <<selVars, fenceVars>>

OcrBegin == OcrBeginOn(OcrRequests)

OcrFinish ==
    /\ pc = "calling" /\ endpoint = "ocr"
    /\ \E ans \in GeminiAnswers :
         /\ answer' = ans
         /\ resp' = OcrRespond(ans)
    /\ pc' = "done"
    /\ UNCHANGED <<endpoint, req, calls, prev, gemini_key, vision_key, translate_key, ocr_cache, clock>>
    /\ UNCHANGED <<selVars, fenceVars>>

----------------------------------------------------------------------------
(* ocr_server_google.py: OCRHandler.do_POST, path /ocr                     *)

VisionRequests == {[path |-> "/ocr", image |-> i] : i \in Images}

\* hashlib.md5(image_data.encode()).hexdigest(): distinct payloads have
\* distinct digests
Md5(data) == [md5 |-> data]

\* ocr_cache is a dict, held as a set of [key, value] entries, one per key
CacheHas(cache, k) == \E e \in cache : e.key = k
CacheGet(cache, k) == (CHOOSE e \in cache : e.key = k).value

\* variant of CachePut that keeps only the newest entry
CachePutEvicts(cache, k, v) == {[key |-> k, value |-> v]}

\* variant of CachePut that files the result under a key of its own
CachePutMisfiled(cache, k, v) ==
    {e \in cache : e.key # Md5("misfiled")}
        \cup {[key |-> Md5("misfiled"), value |-> v]}

\* variant of CachePut that stores nothing
CachePutDropped(cache, k, v) == cache

\* ocr_cache[image_hash] = result
CachePut(cache, k, v) ==
    {e \in cache : e.key # k} \cup {[key |-> k, value |-> v]}

\* get_mock_chinese_menu_data(); now is datetime.now()
MockData(now) ==
    [kind |-> "ocr", success |-> TRUE, text |-> "mock menu", language |-> "zh",
     source |-> "mock_data", timestamp |-> now]

\* lines 90-96
VisionResult(text, now) ==
    [kind |-> "ocr", success |-> TRUE, text |-> text, language |-> "zh",
     source |-> "google_vision", timestamp |-> now]

\* send_success_response / send_error_response
VisionSuccess(data) == [statuses |-> <<200>>, body |-> data]
VisionError(msg) ==
    [statuses |-> <<500>>,
     body |-> [kind |-> "error", success |-> FALSE, error |-> msg, status |-> 0]]

\* requests.post(vision_url, json=vision_request): no timeout is passed
VisionCall(payload) ==
    [model |-> "vision:annotate", prompt |-> [mode |-> "TEXT_DETECTION"],
     image |-> DropDataUrlPrefix(payload.image), timeout |-> 0]

\* Vision answers: a connection failure, a non-200 status, or 200 with a
\* body that is no JSON, has no responses, no textAnnotations, or a text
VisionAnswers ==
    {[kind |-> "connerr"]}
    \cup {[kind |-> "http", status |-> st] : st \in ProviderStatuses \ {200}}
    \cup {[kind |-> "http", status |-> 200, envelope |-> e] :
             e \in {"not_json", "no_responses", "no_annotations"}}
    \cup {[kind |-> "http", status |-> 200, envelope |-> "text", description |-> t] :
             t \in {"menu text", "other text"}}

\* lines 28-79: up to the provider call
VisionBeginOn(requests) ==
    /\ pc = "idle"
    /\ clock < MaxClock
    /\ clock' = clock + 1
    /\ \E payload \in requests :
         LET image_hash == Md5(DropDataUrlPrefix(payload.image))
         IN /\ req' = payload
            /\ endpoint' = "vision"
            /\ answer' = NoAnswer
            /\ IF CacheHas(ocr_cache, image_hash)
               THEN /\ resp' = VisionSuccess(CacheGet(ocr_cache, image_hash))
                    /\ calls' = <<>>
                    /\ pc' = "done"
               ELSE IF ~vision_key
               THEN /\ resp' = VisionSuccess(MockData(clock'))
                    /\ calls' = <<>>
                    /\ pc' = "done"
               ELSE /\ resp' = NoResp
                    /\ calls' = <<VisionCall(payload)>>
                    /\ pc' = "calling"
    /\ UNCHANGED <<prev, gemini_key, vision_key, translate_key, ocr_cache>>
    /\ UNCHANGED <<selVars, fenceVars>>

VisionBegin == VisionBeginOn(VisionRequests)

\* variant of VisionFinish that also caches the mock fallback of a failed
\* provider call
VisionFinishCachesMock ==
    /\ pc = "calling" /\ endpoint = "vision"
    /\ \E ans \in VisionAnswers :
         /\ answer' = ans
         /\ CASE ans.kind = "connerr" ->
                    /\ resp' = VisionError("ConnectionError")
                    /\ UNCHANGED ocr_cache
              [] ans.kind = "http" /\ ans.status # 200 ->
                    /\ resp' = VisionSuccess(MockData(clock))
                    /\ ocr_cache' = CachePut(ocr_cache,
                                           Md5(DropDataUrlPrefix(req.image)),
                                           MockData(clock))
              [] ans.kind = "http" /\ ans.status = 200 /\ ans.envelope = "not_json" ->
                    /\ resp' = VisionError("JSONDecodeError")
                    /\ UNCHANGED ocr_cache
              [] ans.kind = "http" /\ ans.status = 200 /\ ans.envelope = "no_responses" ->
                    /\ resp' = VisionError("Invalid response from Vision API")
                    /\ UNCHANGED ocr_cache
              [] ans.kind = "http" /\ ans.status = 200 /\ ans.envelope = "no_annotations" ->
                    /\ resp' = VisionError("No text found in image")
                    /\ UNCHANGED ocr_cache
              [] OTHER ->
                    LET result == VisionResult(ans.description, clock)
                    IN /\ ocr_cache' = CachePut(ocr_cache,
                                           Md5(DropDataUrlPrefix(req.image)), result)
                       /\ resp' = VisionSuccess(result)
    /\ pc' = "done"
    /\ UNCHANGED <<endpoint, req, calls, prev, gemini_key, vision_key, translate_key, clock>>
    /\ UNCHANGED <<selVars, fenceVars>>

\* lines 81-114: from the provider's answer to the end of the handler
VisionFinish ==
    /\ pc = "calling" /\ endpoint = "vision"
    /\ \E ans \in VisionAnswers :
         /\ answer' = ans
         /\ CASE ans.kind = "connerr" ->
                    /\ resp' = VisionError("ConnectionError")
                    /\ UNCHANGED ocr_cache
              [] ans.kind = "http" /\ ans.status # 200 ->
                    /\ resp' = VisionSuccess(MockData(clock))
                    /\ UNCHANGED ocr_cache
              [] ans.kind = "http" /\ ans.status = 200 /\ ans.envelope = "not_json" ->
                    /\ resp' = VisionError("JSONDecodeError")
                    /\ UNCHANGED ocr_cache
              [] ans.kind = "http" /\ ans.status = 200 /\ ans.envelope = "no_responses" ->
                    /\ resp' = VisionError("Invalid response from Vision API")
                    /\ UNCHANGED ocr_cache
              [] ans.kind = "http" /\ ans.status = 200 /\ ans.envelope = "no_annotations" ->
                    /\ resp' = VisionError("No text found in image")
                    /\ UNCHANGED ocr_cache
              [] OTHER ->
                    LET result == VisionResult(ans.description, clock)
                    IN /\ ocr_cache' = CachePut(ocr_cache,
                                           Md5(DropDataUrlPrefix(req.image)), result)
                       /\ resp' = VisionSuccess(result)
    /\ pc' = "done"
    /\ UNCHANGED <<endpoint, req, calls, prev, gemini_key, vision_key, translate_key, clock>>
    /\ UNCHANGED <<selVars, fenceVars>>

----------------------------------------------------------------------------
(* ocr_server_google.py: OCRHandler.do_POST, path /translate, other paths  *)
(* and request bodies that json.loads or data.get reject                   *)

TranslateRequests ==
    {[path |-> "/translate", text |-> "menu text", target |-> g] :
        g \in {"en", "zh"}}

\* POSTs to a path do_POST has no branch for
OtherRequests == {[path |-> p] : p \in {"/", "/ocr/", "/health"}}

\* POSTs to /ocr or /translate whose body is no JSON, or JSON that is no
\* object
BrokenRequests ==
    {[path |-> p, body |-> b] :
        p \in {"/ocr", "/translate"}, b \in {"not_json", "array"}}

\* get_mock_translation(text, target_lang)
MockTranslation(text, target) ==
    [kind |-> "translation", success |-> TRUE,
     translatedText |-> <<target, text>>, source |-> "mock"]

\* lines 143-147
TranslateResult(translated) ==
    [kind |-> "translation", success |-> TRUE,
     translatedText |-> translated, source |-> "google_translate"]

\* requests.post(translate_url, json=translate_request): no timeout is passed
TranslateCall(payload) ==
    [model |-> "translate:v2",
     prompt |-> [mode |-> "translate", q |-> payload.text,
                 target |-> payload.target],
     image |-> "none", timeout |-> 0]

\* Translate answers: a connection failure, a non-200 status, or 200 with a
\* body that is no JSON, has no translations, or a translation
TranslateAnswers ==
    {[kind |-> "connerr"]}
    \cup {[kind |-> "http", status |-> st] : st \in ProviderStatuses \ {200}}
    \cup {[kind |-> "http", status |-> 200, envelope |-> e] :
             e \in {"not_json", "no_translations"}}
    \cup {[kind |-> "http", status |-> 200, envelope |-> "text",
           translatedText |-> "translated menu"]}

\* lines 116-137: up to the provider call
TranslateBegin ==
    /\ pc = "idle"
    /\ \E payload \in TranslateRequests :
         /\ req' = payload
         /\ endpoint' = "translate"
         /\ answer' = NoAnswer
         /\ IF translate_key \/ vision_key
            THEN /\ resp' = NoResp
                 /\ calls' = <<TranslateCall(payload)>>
                 /\ pc' = "calling"
            ELSE /\ resp' = VisionSuccess(MockTranslation(payload.text,
                                                          payload.target))
                 /\ calls' = <<>>
                 /\ pc' = "done"
    /\ UNCHANGED <<prev, gemini_key, vision_key, translate_key, ocr_cache, clock>>
    /\ UNCHANGED <<selVars, fenceVars>>

\* lines 137-159: from the provider's answer to the end of the handler
TranslateFinish ==
    /\ pc = "calling" /\ endpoint = "translate"
    /\ \E ans \in TranslateAnswers :
         /\ answer' = ans
         /\ resp' = IF /\ ans.kind = "http" /\ ans.status = 200
                       /\ ans.envelope = "text"
                    THEN VisionSuccess(TranslateResult(ans.translatedText))
                    ELSE VisionSuccess(MockTranslation(req.text, req.target))
    /\ pc' = "done"
    /\ UNCHANGED <<endpoint, req, calls, prev, gemini_key, vision_key, translate_key, ocr_cache, clock>>
    /\ UNCHANGED <<selVars, fenceVars>>

\* lines 28 and 116: neither branch of do_POST is taken and the method
\* returns without writing a status line or a body
PostUnrouted ==
    /\ pc = "idle"
    /\ \E payload \in OtherRequests : req' = payload
    /\ endpoint' = "unrouted"
    /\ answer' = NoAnswer
    /\ resp' = NoResp
    /\ calls' = <<>>
    /\ pc' = "done"
    /\ UNCHANGED <<prev, gemini_key, vision_key, translate_key, ocr_cache, clock>>
    /\ UNCHANGED <<selVars, fenceVars>>

\* lines 29-31 and 117-122: json.loads(body) stands before the try of both
\* branches, and so does data.get of /translate: what they raise leaves
\* do_POST and nothing is written.  data.get of /ocr stands inside the try.
PostBroken ==
    /\ pc = "idle"
    /\ \E payload \in BrokenRequests :
         /\ req' = payload
         /\ resp' = IF payload.path = "/ocr" /\ payload.body = "array"
                    THEN VisionError("AttributeError")
                    ELSE NoResp
    /\ endpoint' = "unparsed"
    /\ answer' = NoAnswer
    /\ calls' = <<>>
    /\ pc' = "done"
    /\ UNCHANGED <<prev, gemini_key, vision_key, translate_key, ocr_cache, clock>>
    /\ UNCHANGED <<selVars, fenceVars>>

----------------------------------------------------------------------------
(* services/ocr/app/main.py: ocr_endpoint (FastAPI, one status per request) *)

\* OcrRequest: image and image_url are optional
ServiceRequests ==
    {[target_lang |-> "en"], [target_lang |-> "en", image_url |-> "http://menu"]}
    \cup {[target_lang |-> "en", image |-> i] : i \in Images}

\* raise HTTPException(status_code, detail) reaching the framework
HttpException(status_code, detail, quoted) ==
    [statuses |-> <<status_code>>, body |-> ErrorBody(detail, quoted)]

\* lines 187-189: except Exception as e: raise HTTPException(500, str(e))
CaughtAs500(msg, quoted) == HttpException(500, msg, quoted)

\* HTTPException is itself an Exception, so one raised inside the try block
\* is caught by the same clause and raised again as a 500 whose detail
\* quotes the original status
ReraisedAs500(exc) == CaughtAs500(exc.body.error, exc.statuses[1])

\* requests.post(gemini_url, headers=headers, json=payload_data): no timeout
ServiceCall(image_data) ==
    [model |-> "gemini-2.5-flash", prompt |-> [mode |-> "full"],
     image |-> image_data, timeout |-> 0]

\* requests.get(payload.image_url, timeout=15)
DownloadCall(url) == [model |-> "download", url |-> url, timeout |-> 15]

DownloadAnswers ==
    {[kind |-> "timeout"], [kind |-> "connerr"],
     [kind |-> "http", status |-> 404], [kind |-> "http", status |-> 200]}

ServiceAnswers == GeminiAnswers \ {[kind |-> "timeout"]}

\* variant of ServiceKeyCheck that goes on to the call without the check
ServiceKeyCheckSkipped(image_data, sofar) ==
    /\ resp' = NoResp
    /\ calls' = Append(sofar, ServiceCall(image_data))
    /\ pc' = "calling"

\* lines 94-97: the credential check that follows the image
ServiceKeyCheck(image_data, sofar) ==
    IF ~gemini_key
    THEN /\ resp' = ReraisedAs500(HttpException(500, "Gemini API key not configured", 0))
         /\ calls' = sofar
         /\ pc' = "done"
    ELSE /\ resp' = NoResp
         /\ calls' = Append(sofar, ServiceCall(image_data))
         /\ pc' = "calling"

\* lines 76-92
ServiceBeginOn(requests) ==
    /\ pc = "idle"
    /\ \E payload \in requests :
         /\ req' = payload
         /\ endpoint' = "service"
         /\ answer' = NoAnswer
         /\ IF "image" \in DOMAIN payload
            THEN IF ~B64Decodes(DropDataUrlPrefix(payload.image))
                 THEN /\ resp' = CaughtAs500("binascii.Error", 0)
                      /\ calls' = <<>>
                      /\ pc' = "done"
                 ELSE ServiceKeyCheck(DropDataUrlPrefix(payload.image), <<>>)
            ELSE IF "image_url" \in DOMAIN payload
            THEN /\ resp' = NoResp
                 /\ calls' = <<DownloadCall(payload.image_url)>>
                 /\ pc' = "downloading"
            ELSE /\ resp' = ReraisedAs500(
                        HttpException(400, "Either image or image_url must be provided", 0))
                 /\ calls' = <<>>
                 /\ pc' = "done"
    /\ UNCHANGED <<prev, gemini_key, vision_key, translate_key, ocr_cache, clock>>
    /\ UNCHANGED <<selVars, fenceVars>>

ServiceBegin == ServiceBeginOn(ServiceRequests)

\* lines 88-90: the image download returns
ServiceDownloaded ==
    /\ pc = "downloading" /\ endpoint = "service"
    /\ \E ans \in DownloadAnswers :
         IF ans.kind = "http" /\ ans.status = 200
         THEN ServiceKeyCheck("menu", calls)
         ELSE /\ resp' = CaughtAs500("download failed",
                                 IF ans.kind = "http" THEN ans.status ELSE 0)
              /\ calls' = calls
              /\ pc' = "done"
    /\ UNCHANGED <<endpoint, req, answer, prev, gemini_key, vision_key, translate_key, ocr_cache, clock>>
    /\ UNCHANGED <<selVars, fenceVars>>

\* lines 176-181: OcrResponse(...) built from the parsed document
ServiceBody(doc) ==
    IF doc.kind # "object"
    THEN CaughtAs500("AttributeError", 0)
    ELSE LET menu_items == Get(doc.f, "menu_items", JList(<<>>))
         IN IF menu_items.t # "list"
            THEN CaughtAs500("TypeError", 0)
            ELSE [statuses |-> <<200>>,
                  body |-> [kind |-> "full", menu_items |-> menu_items,
                            detected_lang |-> "zh"]]

\* lines 155-189: from the provider's answer to the end of the endpoint.  A
\* non-200 status that raise_for_status lets through has no JSON body, and
\* the JSONDecodeError clause then fails on the unbound result_text.
ServiceRespond(ans) ==
    CASE ans.kind = "connerr" ->
            CaughtAs500("ConnectionError", 0)
      [] ans.kind = "http" /\ RaisesForStatus(ans.status) ->
            CaughtAs500("HTTPError", ans.status)
      [] ans.kind = "http" /\ ans.status # 200 ->
            HttpException(500, "Internal Server Error", 0)
      [] OTHER ->
            LET txt == GeminiText(ans)
            IN IF txt.ok THEN ServiceBody(txt.doc)
               ELSE IF ans.envelope \in {"no_candidates", "no_content"}
               THEN ReraisedAs500(HttpException(500, txt.err, 0))
               ELSE CaughtAs500(txt.err, 0)

ServiceFinish ==
    /\ pc = "calling" /\ endpoint = "service"
    /\ \E ans \in ServiceAnswers :
         /\ answer' = ans
         /\ resp' = ServiceRespond(ans)
    /\ pc' = "done"
    /\ UNCHANGED <<endpoint, req, calls, prev, gemini_key, vision_key, translate_key, ocr_cache, clock>>
    /\ UNCHANGED <<selVars, fenceVars>>

----------------------------------------------------------------------------
(* Dish details: api/dish-details.py handler.do_POST, and                  *)
(* dish_details_endpoint / batch_dish_details_endpoint of main.py          *)

DishNames == 1..MaxDishes

\* DishDetailsRequest / BatchDishDetailsRequest, reduced to the dish names
DishRequests == {[chinese_name |-> d] : d \in DishNames}
BatchDishRequests == {[dishes |-> ds] : ds \in SeqsUpTo(DishNames, MaxDishes)}

\* the enrichment object of dish d, and a JSON array of such objects
DetailObj(d) == [kind |-> "object", f |-> [about |-> JInt(d)]]
DetailArray(ds) ==
    [kind |-> "array", items |-> [i \in 1..Len(ds) |-> DetailObj(ds[i])]]

\* documents the provider may answer a details prompt with
DetailDocs ==
    {DetailObj(d) : d \in DishNames}
    \cup {DetailArray(ds) : ds \in SeqsUpTo(DishNames, MaxDishes + 1)}

DetailTexts ==
    {Bare(d) : d \in DetailDocs}
    \cup {Fenced(DetailArray(<<1>>)), FencedOneLine(DetailArray(<<1>>)), <<XX>>}

DetailAnswers ==
    {[kind |-> "timeout"], [kind |-> "connerr"]}
    \cup {[kind |-> "http", status |-> st] : st \in ProviderStatuses \ {200}}
    \cup {[kind |-> "http", status |-> 200, envelope |-> e] :
             e \in {"no_candidates", "no_content", "empty_parts"}}
    \cup {[kind |-> "http", status |-> 200, envelope |-> "text", text |-> t] :
             t \in DetailTexts}

\* api/dish-details.py: requests.post(..., timeout=9)
DishCall(payload) ==
    [model |-> "gemini-2.0-flash-exp",
     prompt |-> [mode |-> "dish", dishes |-> <<payload.chinese_name>>],
     timeout |-> 9]

\* main.py: requests.post(f"{gemini_url}?key={api_key}", headers, json): no
\* timeout is passed
SvcDishCall(payload) ==
    [model |-> "gemini-2.5-flash",
     prompt |-> [mode |-> "dish", dishes |-> <<payload.chinese_name>>],
     timeout |-> 0]

BatchDetailsCall(payload) ==
    [model |-> "gemini-2.5-flash",
     prompt |-> [mode |-> "dishes", dishes |-> payload.dishes],
     timeout |-> 0]

\* api/dish-details.py lines 59-101: the parsed document is written as is
DishRespond(ans) ==
    CASE ans.kind = "timeout" -> Fail500("ReadTimeout", 0)
      [] ans.kind = "connerr" -> Fail500("ConnectionError", 0)
      [] ans.kind = "http" /\ RaisesForStatus(ans.status) ->
            Fail500("HTTPError", ans.status)
      [] ans.kind = "http" /\ ans.status # 200 -> Fail500("JSON parse error", 0)
      [] OTHER ->
            LET txt == GeminiText(ans)
            IN IF txt.ok
               THEN [statuses |-> <<200>>, body |-> [kind |-> "dish", details |-> txt.doc]]
               ELSE Fail500(txt.err, 0)

\* main.py lines 237-265 and 305-333; wrap is TRUE for the batch endpoint,
\* which returns {"details": result_json}
SvcDetailsRespond(ans, wrap) ==
    CASE ans.kind = "connerr" -> CaughtAs500("ConnectionError", 0)
      [] ans.kind = "http" /\ RaisesForStatus(ans.status) ->
            CaughtAs500("HTTPError", ans.status)
      [] ans.kind = "http" /\ ans.status # 200 ->
            CaughtAs500("Failed to parse response", 0)
      [] OTHER ->
            LET txt == GeminiText(ans)
            IN IF txt.ok
               THEN [statuses |-> <<200>>,
                     body |-> [kind |-> IF wrap THEN "details" ELSE "dish",
                               details |-> txt.doc]]
               ELSE IF ans.envelope \in {"no_candidates", "no_content"}
               THEN ReraisedAs500(HttpException(500, txt.err, 0))
               ELSE CaughtAs500(txt.err, 0)

\* answers to a call that has no timeout: the read never gives up
SvcDetailAnswers == DetailAnswers \ {[kind |-> "timeout"]}

\* api/dish-details.py lines 7-58: up to the provider call
DishBegin ==
    /\ pc = "idle"
    /\ \E payload \in DishRequests :
         /\ req' = payload
         /\ endpoint' = "dish"
         /\ answer' = NoAnswer
         /\ IF ~gemini_key
            THEN /\ resp' = Fail500("GEMINI_API_KEY not configured", 0)
                 /\ calls' = <<>>
                 /\ pc' = "done"
            ELSE /\ resp' = NoResp
                 /\ calls' = <<DishCall(payload)>>
                 /\ pc' = "calling"
    /\ UNCHANGED <<prev, gemini_key, vision_key, translate_key, ocr_cache, clock>>
    /\ UNCHANGED <<selVars, fenceVars>>

\* api/dish-details.py lines 59-99
DishFinish ==
    /\ pc = "calling" /\ endpoint = "dish"
    /\ \E ans \in DetailAnswers :
         /\ answer' = ans
         /\ resp' = DishRespond(ans)
    /\ pc' = "done"
    /\ UNCHANGED <<endpoint, req, calls, prev, gemini_key, vision_key, translate_key, ocr_cache, clock>>
    /\ UNCHANGED <<selVars, fenceVars>>

\* main.py dish_details_endpoint, lines 268-306
SvcDishBegin ==
    /\ pc = "idle"
    /\ \E payload \in DishRequests :
         /\ req' = payload
         /\ endpoint' = "svc_dish"
         /\ answer' = NoAnswer
         /\ IF ~gemini_key
            THEN /\ resp' = ReraisedAs500(HttpException(500, "Gemini API key not configured", 0))
                 /\ calls' = <<>>
                 /\ pc' = "done"
            ELSE /\ resp' = NoResp
                 /\ calls' = <<SvcDishCall(payload)>>
                 /\ pc' = "calling"
    /\ UNCHANGED <<prev, gemini_key, vision_key, translate_key, ocr_cache, clock>>
    /\ UNCHANGED <<selVars, fenceVars>>

\* main.py dish_details_endpoint, lines 307-333
SvcDishFinish ==
    /\ pc = "calling" /\ endpoint = "svc_dish"
    /\ \E ans \in SvcDetailAnswers :
         /\ answer' = ans
         /\ resp' = SvcDetailsRespond(ans, FALSE)
    /\ pc' = "done"
    /\ UNCHANGED <<endpoint, req, calls, prev, gemini_key, vision_key, translate_key, ocr_cache, clock>>
    /\ UNCHANGED <<selVars, fenceVars>>

\* main.py batch_dish_details_endpoint, lines 192-238
BatchDetailsBegin ==
    /\ pc = "idle"
    /\ \E payload \in BatchDishRequests :
         /\ req' = payload
         /\ endpoint' = "svc_batch"
         /\ answer' = NoAnswer
         /\ IF ~gemini_key
            THEN /\ resp' = ReraisedAs500(HttpException(500, "Gemini API key not configured", 0))
                 /\ calls' = <<>>
                 /\ pc' = "done"
            ELSE /\ resp' = NoResp
                 /\ calls' = <<BatchDetailsCall(payload)>>
                 /\ pc' = "calling"
    /\ UNCHANGED <<prev, gemini_key, vision_key, translate_key, ocr_cache, clock>>
    /\ UNCHANGED <<selVars, fenceVars>>

\* main.py batch_dish_details_endpoint, lines 239-265
BatchDetailsFinish ==
    /\ pc = "calling" /\ endpoint = "svc_batch"
    /\ \E ans \in SvcDetailAnswers :
         /\ answer' = ans
         /\ resp' = SvcDetailsRespond(ans, TRUE)
    /\ pc' = "done"
    /\ UNCHANGED <<endpoint, req, calls, prev, gemini_key, vision_key, translate_key, ocr_cache, clock>>
    /\ UNCHANGED <<selVars, fenceVars>>

----------------------------------------------------------------------------
(* services/ocr/app/ocr.py: build_provider                                 *)

\* the environment of build_provider: OCR_PROVIDER (lower-cased; unset means
\* "vision-api-key"), whether google-ocr-key.json exists, whether
\* GOOGLE_VISION_API_KEY is set, whether vision.ImageAnnotatorClient() can be
\* constructed, and whether PaddleOCR can be
Environments ==
    [provider : {"vision-api-key", "vision", "paddle", "mock"},
     sa_file : BOOLEAN, api_key : BOOLEAN, sdk_ok : BOOLEAN, paddle_ok : BOOLEAN]

Provider(class, use_sdk) == [kind |-> "provider", class |-> class, use_sdk |-> use_sdk]
Raised(msg) == [kind |-> "raised", error |-> msg]

\* GoogleVisionApiKeyProvider.__init__
GoogleVisionApiKeyProvider(c) ==
    IF c.sa_file /\ c.sdk_ok
    THEN Provider("GoogleVisionApiKeyProvider", TRUE)
    ELSE IF ~c.api_key
    THEN Raised("Google Vision credentials not found")
    ELSE Provider("GoogleVisionApiKeyProvider", FALSE)

\* VisionOcrProvider.__init__
VisionOcrProvider(c) ==
    IF c.sdk_ok THEN Provider("VisionOcrProvider", TRUE)
    ELSE Raised("Google Vision not available")

\* PaddleOcrProvider.__init__
PaddleOcrProvider(c) ==
    IF c.paddle_ok THEN Provider("PaddleOcrProvider", FALSE)
    ELSE Raised("PaddleOCR not available")

build_provider(c) ==
    LET first == IF c.provider = "vision-api-key"
                 THEN GoogleVisionApiKeyProvider(c) ELSE Raised("not tried")
        provider == IF c.provider = "vision-api-key" THEN "vision" ELSE c.provider
    IN IF c.provider = "vision-api-key" /\ first.kind = "provider"
       THEN first
       ELSE IF provider = "paddle" THEN PaddleOcrProvider(c)
       ELSE VisionOcrProvider(c)

BuildProvider ==
    /\ built.kind = "none"
    /\ built' = build_provider(cfg)
    /\ UNCHANGED <<cfg, ran, exchVars, fenceVars>>

\* what the provider's back end does with one image: text annotations, an
\* error whose message names BILLING_DISABLED, or another error
RunAnswers == {"annotations", "billing_disabled", "error"}

Results(source) == [kind |-> "results", source |-> source]

\* GoogleVisionApiKeyProvider.run: the SDK client answers an error naming
\* BILLING_DISABLED with _get_mock_results() and re-raises any other; the
\* REST client (API key) raises on every error
GoogleVisionApiKeyProviderRun(p, ans) ==
    IF p.use_sdk
    THEN CASE ans = "annotations" -> Results("google_vision")
           [] ans = "billing_disabled" -> Results("mock")
           [] OTHER -> Raised("Vision SDK error")
    ELSE IF ans = "annotations" THEN Results("google_vision")
         ELSE Raised("HTTPError")

\* VisionOcrProvider.run and PaddleOcrProvider.run hold no try block
PlainProviderRun(p, ans) ==
    IF ans = "annotations" THEN Results(p.class) ELSE Raised("provider error")

\* provider.run(image_bytes) on the provider that build_provider returned
RunProvider ==
    /\ built.kind = "provider" /\ ran.kind = "none"
    /\ \E ans \in RunAnswers :
         ran' = IF built.class = "GoogleVisionApiKeyProvider"
                THEN GoogleVisionApiKeyProviderRun(built, ans)
                ELSE PlainProviderRun(built, ans)
    /\ UNCHANGED <<cfg, built, exchVars, fenceVars>>

----------------------------------------------------------------------------
(* The server loop: do_POST returns and the process waits for the next     *)
(* request.  prev keeps what a caller saw of the exchange just finished.   *)

\* the response is a single 200 whose body is an empty, final batch
IsTerminalBatch(r) ==
    /\ r.statuses = <<200>>
    /\ r.body.kind = "batch"
    /\ r.body.menu_items = JList(<<>>)
    /\ r.body.has_more = JBool(FALSE)

Outcome(r) ==
    IF IsTerminalBatch(r) THEN "terminal"
    ELSE IF r.statuses = <<200>> THEN "ok" ELSE "failed"

Summary ==
    IF endpoint = "vision"
    THEN [endpoint |-> endpoint, image |-> req.image,
          called |-> calls # <<>>, resp |-> resp]
    ELSE [endpoint |-> endpoint, image |-> Get(req, "image", NoImage), count_only |-> count_only(req),
          batch_number |-> batch_number(req), outcome |-> Outcome(resp)]

Return ==
    /\ pc = "done"
    /\ pc' = "idle"
    /\ prev' = Summary
    /\ endpoint' = "none"
    /\ req' = NoReq
    /\ calls' = <<>>
    /\ answer' = NoAnswer
    /\ resp' = NoResp
    /\ UNCHANGED <<gemini_key, vision_key, translate_key, ocr_cache, clock>>
    /\ UNCHANGED <<selVars, fenceVars>>

Idle ==
    /\ pc = "idle" /\ endpoint = "none" /\ req = NoReq /\ calls = <<>>
    /\ answer = NoAnswer /\ resp = NoResp /\ prev = NoPrev
    /\ ocr_cache = {} /\ clock = 0

SelIdle == cfg = [none |-> TRUE] /\ built = [kind |-> "none"] /\ ran = [kind |-> "none"]
FenceIdle == raw = <<>> /\ stripped = <<>>

----------------------------------------------------------------------------
(* Specifications, one per process.                                        *)

MenuInit ==
    /\ Idle /\ SelIdle /\ FenceIdle
    /\ gemini_key \in BOOLEAN
    /\ vision_key = FALSE
    /\ translate_key = FALSE

MenuNext == MenuBegin \/ MenuFinish \/ Return

SpecMenu == MenuInit /\ [][MenuNext]_vars

\* requests.post(..., timeout=25) returns or raises within the timeout, and
\* do_POST returns once the response is written
MenuFairness == WF_vars(MenuFinish) /\ WF_vars(Return)

SpecMenuLive == MenuInit /\ [][MenuNext]_vars /\ MenuFairness

OcrInit ==
    /\ Idle /\ SelIdle /\ FenceIdle
    /\ gemini_key \in BOOLEAN
    /\ vision_key = FALSE
    /\ translate_key = FALSE

OcrNext == OcrBegin \/ OcrFinish \/ Return

SpecOcr == OcrInit /\ [][OcrNext]_vars

VisionInit ==
    /\ Idle /\ SelIdle /\ FenceIdle
    /\ gemini_key = FALSE
    /\ vision_key \in BOOLEAN
    /\ translate_key = FALSE

VisionNext == VisionBegin \/ VisionFinish \/ Return

SpecVision == VisionInit /\ [][VisionNext]_vars

\* the Vision OCR server with all paths of do_POST.  HTTPServer serves one
\* request at a time; a handler that returned is followed by the next
\* request.  Neither provider call has a timeout, so no fairness is assumed
\* for their completion.
HandlerInit ==
    /\ Idle /\ SelIdle /\ FenceIdle
    /\ gemini_key = FALSE
    /\ vision_key \in BOOLEAN
    /\ translate_key \in BOOLEAN

HandlerNext ==
    \/ VisionBegin \/ VisionFinish
    \/ TranslateBegin \/ TranslateFinish
    \/ PostUnrouted \/ PostBroken
    \/ Return

HandlerFairness == WF_vars(Return)

SpecHandlerLive == HandlerInit /\ [][HandlerNext]_vars /\ HandlerFairness

\* the three extraction back ends side by side, with credentials configured,
\* serving requests whose image decodes but is no valid image
JunkImage(requests) == {r \in requests : r.image.data = "junk"}

ExtractInit ==
    /\ Idle /\ SelIdle /\ FenceIdle
    /\ gemini_key = TRUE
    /\ vision_key = TRUE
    /\ translate_key = FALSE

ExtractNext ==
    \/ MenuBeginOn(JunkImage(MenuRequests)) \/ MenuFinish
    \/ OcrBeginOn(JunkImage(OcrRequests)) \/ OcrFinish
    \/ VisionBeginOn(JunkImage(VisionRequests)) \/ VisionFinish
    \/ Return

SpecExtract == ExtractInit /\ [][ExtractNext]_vars

ServiceInit ==
    /\ Idle /\ SelIdle /\ FenceIdle
    /\ gemini_key \in BOOLEAN
    /\ vision_key = FALSE
    /\ translate_key = FALSE

ServiceNext == ServiceBegin \/ ServiceDownloaded \/ ServiceFinish \/ Return

SpecService == ServiceInit /\ [][ServiceNext]_vars

DetailsInit ==
    /\ Idle /\ SelIdle /\ FenceIdle
    /\ gemini_key \in BOOLEAN
    /\ vision_key = FALSE
    /\ translate_key = FALSE

DetailsNext ==
    \/ DishBegin \/ DishFinish
    \/ SvcDishBegin \/ SvcDishFinish
    \/ BatchDetailsBegin \/ BatchDetailsFinish
    \/ Return

SpecDetails == DetailsInit /\ [][DetailsNext]_vars

\* every endpoint of the core side by side, with either credential present
\* or missing, serving first-batch requests for one decodable image
MenuImage == [prefix |-> FALSE, data |-> "menu"]
FirstBatch(requests) ==
    {r \in requests :
        /\ Get(r, "image", MenuImage) = MenuImage
        /\ batch_number(r) = 1
        /\ "total_dishes" \notin DOMAIN r}

CoreInit ==
    /\ Idle /\ SelIdle /\ FenceIdle
    /\ gemini_key \in BOOLEAN
    /\ vision_key \in BOOLEAN
    /\ translate_key = FALSE

CoreNext ==
    \/ MenuBeginOn(FirstBatch(MenuRequests)) \/ MenuFinish
    \/ OcrBeginOn(FirstBatch(OcrRequests)) \/ OcrFinish
    \/ VisionBeginOn(FirstBatch(VisionRequests)) \/ VisionFinish
    \/ ServiceBeginOn(FirstBatch(ServiceRequests)) \/ ServiceDownloaded
    \/ ServiceFinish
    \/ DishBegin \/ DishFinish
    \/ SvcDishBegin \/ SvcDishFinish
    \/ BatchDetailsBegin \/ BatchDetailsFinish
    \/ Return

SpecCore == CoreInit /\ [][CoreNext]_vars

\* a call made with a timeout returns or raises within it; a call made
\* without one returns only if the provider answers, which nothing in the
\* program enforces, so those steps carry no fairness condition
CoreFairness ==
    /\ WF_vars(MenuFinish) /\ WF_vars(OcrFinish) /\ WF_vars(DishFinish)
    /\ WF_vars(ServiceDownloaded)
    /\ WF_vars(Return)

SpecCoreLive == CoreInit /\ [][CoreNext]_vars /\ CoreFairness

SelectInit ==
    /\ cfg \in Environments
    /\ built = [kind |-> "none"]
    /\ ran = [kind |-> "none"]
    /\ Idle /\ FenceIdle
    /\ gemini_key = FALSE
    /\ vision_key = FALSE
    /\ translate_key = FALSE

SelectNext == BuildProvider \/ RunProvider

SpecSelect == SelectInit /\ [][SelectNext]_vars

FenceInit ==
    /\ raw \in FencedTexts
    /\ stripped = <<>>
    /\ Idle /\ SelIdle
    /\ gemini_key = FALSE
    /\ vision_key = FALSE
    /\ translate_key = FALSE

FenceNext == FenceApply

SpecFence == FenceInit /\ [][FenceNext]_vars

----------------------------------------------------------------------------
(* Properties.                                                             *)

\* the current request is a batch (not count-only) request of api/menu.py
\* whose provider call has been issued
BatchCalled == endpoint = "menu" /\ calls # <<>> /\ ~count_only(req)

\* the batch request is finished and the provider's text parsed as JSON
BatchParsed ==
    /\ pc = "done" /\ BatchCalled
    /\ answer.kind = "http" /\ answer.status = 200
    /\ GeminiText(answer).ok

ParsedDoc == GeminiText(answer).doc

\* the provider's text was a JSON object whose menu_items, if present, is a list
BatchWellTyped ==
    /\ BatchParsed
    /\ ParsedDoc.kind = "object"
    /\ Get(ParsedDoc.f, "menu_items", JList(<<>>)).t = "list"

\* C1: for every batch request with batch_number >= 1 the prompt sent to the
\* provider carries start = 2*(batch_number-1)+1 and end = start+1
\* (batch 1 -> [1,2], batch 3 -> [5,6]).
C1_WindowArithmetic ==
    (BatchCalled /\ batch_number(req) >= 1) =>
        LET p == calls[1].prompt
        IN /\ p.mode = "windowed"
           /\ p.start_dish = 2 * (batch_number(req) - 1) + 1
           /\ p.end_dish = p.start_dish + 1
           /\ batch_number(req) = 1 => (p.start_dish = 1 /\ p.end_dish = 2)
           /\ batch_number(req) = 3 => (p.start_dish = 5 /\ p.end_dish = 6)

C1_Witness ==
    /\ pc = "calling" /\ BatchCalled /\ batch_number(req) = 3
    /\ calls[1].prompt.start_dish = 5 /\ calls[1].prompt.end_dish = 6

\* the provider answered this batch with menu_items = [] and has_more = false
ProviderSaidFinal ==
    /\ BatchParsed
    /\ ParsedDoc.kind = "object"
    /\ Get(ParsedDoc.f, "menu_items", JAbsent) = JList(<<>>)
    /\ Get(ParsedDoc.f, "has_more", JAbsent) = JBool(FALSE)

\* the previous exchange was a final (empty, has_more = false) batch N and
\* the current request asks for batch N+1 of the same image
AsksBeyondFinal ==
    /\ prev.endpoint = "menu" /\ prev.outcome = "terminal"
    /\ endpoint = "menu" /\ ~count_only(req)
    /\ req.image = prev.image
    /\ batch_number(req) = prev.batch_number + 1

\* C2 as stated: a final answer to batch N makes the batch-N response final
\* and no provider call for batch N+1 is issued afterwards.
C2_NoCallAfterFinal ==
    /\ ProviderSaidFinal => IsTerminalBatch(resp)
    /\ AsksBeyondFinal => calls = <<>>

\* C2 amended: a final answer to batch N makes the batch-N response a 200
\* with empty menu_items and has_more = false; the handler keeps no session,
\* so a later batch N+1 request is sent to the provider like any other.
C2_FinalAnswerFinalResponse ==
    /\ ProviderSaidFinal => IsTerminalBatch(resp)
    /\ (AsksBeyondFinal /\ gemini_key /\ B64Decodes(DropDataUrlPrefix(req.image)))
          => calls = <<MenuCall(req)>>

C2_Witness ==
    /\ AsksBeyondFinal /\ prev.batch_number = 2
    /\ pc = "calling" /\ calls = <<MenuCall(req)>>

\* C5: when the provider's text parses as a JSON object, missing fields never
\* fail the batch: absent menu_items -> [], absent has_more -> false, absent
\* total_dishes_estimate -> len(menu_items), and the response is a 200.
C5_ContractDefaults ==
    BatchWellTyped =>
        LET f == ParsedDoc.f
            items == Get(f, "menu_items", JList(<<>>))
        IN /\ resp.statuses = <<200>>
           /\ resp.body.kind = "batch"
           /\ resp.body.menu_items = items
           /\ "menu_items" \notin DOMAIN f => resp.body.menu_items = JList(<<>>)
           /\ "has_more" \notin DOMAIN f => resp.body.has_more = JBool(FALSE)
           /\ "has_more" \in DOMAIN f => resp.body.has_more = f["has_more"]
           /\ "total_dishes_estimate" \notin DOMAIN f =>
                  resp.body.total_dishes_estimate = JInt(Len(items.items))
           /\ DOMAIN f = {"menu_items"} /\ items = JList(<<>>) =>
                  /\ resp.body.has_more = JBool(FALSE)
                  /\ resp.body.total_dishes_estimate = JInt(0)

C5_Witness ==
    /\ BatchWellTyped
    /\ DOMAIN ParsedDoc.f = {"menu_items"}
    /\ ParsedDoc.f["menu_items"] = JList(<<>>)
    /\ resp.statuses = <<200>>
    /\ resp.body.total_dishes_estimate = JInt(0)

\* C6 as stated: for a text that begins with a fence marker, applying the
\* strip step twice gives what applying it once gives.
C6_FenceIdempotent == Len(stripped) = 2 => stripped[2] = stripped[1]

\* a successful batch response
BatchOk == pc = "done" /\ BatchCalled /\ resp.statuses = <<200>>

\* C9 as stated: every successful batch response has
\* total_dishes_estimate >= len(menu_items).
C9_TotalCoversItems ==
    BatchOk =>
        /\ resp.body.total_dishes_estimate.t = "int"
        /\ resp.body.total_dishes_estimate.n >= Len(resp.body.menu_items.items)

\* C9 amended: when the provider omits total_dishes_estimate the response
\* carries len(menu_items); a value the provider supplies is forwarded
\* unchanged, whether or not it covers the items.
C9_TotalDefaultOrForwarded ==
    BatchOk =>
        /\ "total_dishes_estimate" \notin DOMAIN ParsedDoc.f =>
               /\ resp.body.total_dishes_estimate.t = "int"
               /\ resp.body.total_dishes_estimate.n = Len(resp.body.menu_items.items)
        /\ "total_dishes_estimate" \in DOMAIN ParsedDoc.f =>
               resp.body.total_dishes_estimate = ParsedDoc.f["total_dishes_estimate"]

C9_Witness ==
    /\ BatchOk
    /\ "total_dishes_estimate" \notin DOMAIN ParsedDoc.f
    /\ Len(resp.body.menu_items.items) = MaxItems
    /\ resp.body.total_dishes_estimate = JInt(MaxItems)

\* the total declared for the menu (the caller's total_dishes hint or the
\* provider's total_dishes_estimate) is smaller than the window's start
DeclaredBelowWindow ==
    /\ BatchOk
    /\ \/ /\ "total_dishes" \in DOMAIN req
             /\ req["total_dishes"] < start_dish(req)
          \/ /\ resp.body.total_dishes_estimate.t = "int"
             /\ resp.body.total_dishes_estimate.n < start_dish(req)

\* C10 as stated: when the declared total is smaller than start_index the
\* batch response has empty menu_items and has_more = false.
C10_EmptyBeyondTotal == DeclaredBelowWindow => IsTerminalBatch(resp)

\* C10 amended: also when the declared total is smaller than start_index the
\* handler forwards the provider's menu_items and has_more unchanged: the
\* response is empty and final exactly when the provider's answer is, and it
\* holds no item the provider did not return.
C10_ForwardsProviderWindow ==
    DeclaredBelowWindow =>
        /\ resp.body.menu_items = Get(ParsedDoc.f, "menu_items", JList(<<>>))
        /\ resp.body.has_more = Get(ParsedDoc.f, "has_more", JBool(FALSE))

C10_Witness ==
    /\ DeclaredBelowWindow
    /\ "total_dishes" \in DOMAIN req /\ req["total_dishes"] = 1
    /\ batch_number(req) = 2
    /\ IsTerminalBatch(resp)

\* the current /ocr request of the Vision server repeats, byte for byte, the
\* image payload of the request served just before it
SameImageAgain ==
    /\ pc = "done" /\ endpoint = "vision"
    /\ prev.endpoint = "vision"
    /\ req.image = prev.image

\* C3 as stated: whatever the first call's outcome, the second call returns
\* the identical result and issues no provider call.
C3_SecondCallIdentical ==
    SameImageAgain => (resp = prev.resp /\ calls = <<>>)

\* the earlier call ended with a result of the provider (fresh or cached)
PrevProviderResult ==
    /\ prev.resp.statuses = <<200>>
    /\ prev.resp.body.source = "google_vision"

\* C3 amended: when the first call returned a provider result (HTTP 200 from
\* Vision with text annotations, the only outcome the handler caches), the
\* second call returns the identical result and issues no provider call.
C3_SecondCallCached ==
    (SameImageAgain /\ PrevProviderResult) => (resp = prev.resp /\ calls = <<>>)

C3_Witness ==
    /\ SameImageAgain /\ PrevProviderResult /\ prev.called
    /\ resp = prev.resp /\ calls = <<>>
    /\ resp.body.timestamp < clock

\* an extraction request whose image decodes but is no valid image got a
\* non-200 status from the provider
JunkImageRejected ==
    /\ pc = "done"
    /\ endpoint \in {"menu", "ocr", "vision"}
    /\ req.image.data = "junk"
    /\ answer.kind = "http" /\ answer.status # 200

\* the response is an HTTP 500 whose error field quotes the status code
Reports500With(status) ==
    /\ resp.statuses = <<500>>
    /\ resp.body.kind = "error"
    /\ resp.body.status = status

\* every request with a junk image that has passed the credential check has
\* had its provider call issued
JunkImageCalled ==
    (endpoint \in {"menu", "ocr", "vision"} /\ pc # "idle"
        /\ req.image.data = "junk")
      => Len(calls) = 1

\* C7 as stated: the call is attempted for an image that is no valid image
\* and every non-200 provider status ends in HTTP 500 with an error quoting
\* the status, on each of the three extraction endpoints.
C7_StatusSurfacesAs500 ==
    /\ JunkImageCalled
    /\ JunkImageRejected => Reports500With(answer.status)

\* the Vision server served the current request from ocr_cache
ServedFromCache ==
    /\ endpoint = "vision" /\ calls = <<>>
    /\ CacheHas(ocr_cache, Md5(DropDataUrlPrefix(req.image)))
    /\ resp = VisionSuccess(CacheGet(ocr_cache, Md5(DropDataUrlPrefix(req.image))))

JunkImageCalledOrCached ==
    (endpoint \in {"menu", "ocr", "vision"} /\ pc # "idle"
        /\ req.image.data = "junk")
      => (Len(calls) = 1 \/ ServedFromCache)

\* C7 amended: the call is attempted (unless the Vision server finds the
\* payload in its cache); the batch menu handler answers every
\* non-200 status, and the single-shot Gemini handler every 4xx/5xx status,
\* with HTTP 500 and an error quoting the status; the Vision OCR server
\* answers a non-200 status with HTTP 200 and mock data.
C7_StatusPerEndpoint ==
    /\ JunkImageCalledOrCached
    /\ JunkImageRejected =>
          /\ endpoint = "menu" => Reports500With(answer.status)
          /\ (endpoint = "ocr" /\ RaisesForStatus(answer.status))
                => Reports500With(answer.status)
          /\ endpoint = "vision" =>
                /\ resp.statuses = <<200>>
                /\ resp.body.source = "mock_data"

C7_Witness ==
    /\ JunkImageRejected /\ endpoint = "ocr" /\ answer.status = 400
    /\ Reports500With(400) /\ Len(calls) = 1

\* C4 as stated: with no service-account file and no GOOGLE_VISION_API_KEY,
\* build_provider returns a usable client and never raises, whatever
\* OCR_PROVIDER names.
C4_AlwaysUsableClient ==
    (built.kind # "none" /\ ~cfg.sa_file /\ ~cfg.api_key)
        => built.kind = "provider"

\* C8 as stated: an /ocr request with neither image nor image_url is
\* answered with HTTP 400, not 500.
C8_MissingImageIs400 ==
    (pc = "done" /\ endpoint = "service"
        /\ "image" \notin DOMAIN req /\ "image_url" \notin DOMAIN req)
      => resp.statuses = <<400>>

\* C11 as stated: for every batch request the handler processes, whatever
\* batch_number the caller sent (0, negative or none), the start and end of
\* the window it computes are both >= 1.
C11_WindowAtLeastOne ==
    BatchCalled =>
        /\ calls[1].prompt.start_dish >= 1
        /\ calls[1].prompt.end_dish >= 1

\* the provider's answer is a transport failure, a non-200 status, or a 200
\* whose text is no parseable JSON
IsFailureAnswer(ans) ==
    \/ ans.kind \in {"timeout", "connerr"}
    \/ ans.kind = "http" /\ ans.status # 200
    \/ ans.kind = "http" /\ ans.status = 200 /\ ans.envelope = "not_json"
    \/ /\ ans.kind = "http" /\ ans.status = 200 /\ ans.envelope = "text"
       /\ "text" \in DOMAIN ans
       /\ ~GeminiText(ans).ok

\* the batch request being served has just failed in one of these ways
BatchFailedNow == pc = "done" /\ BatchCalled /\ IsFailureAnswer(answer)

\* the process state that outlives a request
ServerState == <<gemini_key, vision_key, ocr_cache>>

\* the previous batch request failed and the caller now submits the same
\* batch_number for the same image again
ResubmitsFailedBatch ==
    /\ prev.endpoint = "menu" /\ ~prev.count_only /\ prev.outcome = "failed"
    /\ endpoint = "menu" /\ ~count_only(req)
    /\ req.image = prev.image
    /\ batch_number(req) = prev.batch_number

\* the failed batch is answered with one 500 and an error body, and the
\* resubmitted batch is sent to the provider with the window of the failed one
C12_FailedBatchState ==
    /\ BatchFailedNow =>
          /\ resp.statuses = <<500>> /\ resp.body.kind = "error"
          /\ Len(calls) = 1
    /\ (ResubmitsFailedBatch /\ gemini_key /\ B64Decodes(DropDataUrlPrefix(req.image))) =>
          /\ Len(calls) = 1
          /\ calls[1].prompt.start_dish = (prev.batch_number - 1) * dishes_per_batch + 1
          /\ calls[1].prompt.end_dish = (prev.batch_number - 1) * dishes_per_batch + 2

\* a step that ends a request in a failure changes nothing that outlives it
C12_FailedBatchStep ==
    (pc = "calling" /\ pc' = "done" /\ resp'.statuses # <<200>>)
        => UNCHANGED ServerState

\* C12: a failed batch (transport failure, non-200 provider status or
\* unparseable provider JSON) is reported for that request only, as one HTTP
\* 500 with an error body, and changes no server-side state; resubmitting the
\* same batch_number computes the same window and can succeed.
C12_FailureLeavesNoTrace ==
    []C12_FailedBatchState /\ [][C12_FailedBatchStep]_vars

C12_Witness ==
    /\ ResubmitsFailedBatch /\ prev.batch_number = 2
    /\ pc = "done" /\ Len(calls) = 1
    /\ resp.statuses = <<200>> /\ resp.body.kind = "batch"
    /\ resp.body.menu_items # JList(<<>>)

\* a count-only probe is being served / has ended with its response written
ProbeServed == pc # "idle" /\ endpoint = "menu" /\ count_only(req)
ProbeEnded ==
    /\ pc = "done" /\ endpoint = "menu" /\ count_only(req)
    /\ resp.statuses # <<>> /\ resp.body.kind \in {"count", "error"}

\* the previous exchange was a failed probe and the caller, who learnt no
\* total from it, now asks for a batch of the same image
BatchAfterFailedProbe ==
    /\ prev.endpoint = "menu" /\ prev.count_only /\ prev.outcome = "failed"
    /\ endpoint = "menu" /\ ~count_only(req)
    /\ req.image = prev.image
    /\ Get(req, "total_dishes", 0) = 0

C13_ProbeNeverBlocks ==
    /\ (BatchAfterFailedProbe /\ gemini_key /\ B64Decodes(DropDataUrlPrefix(req.image))) =>
          /\ pc \in {"calling", "done"}
          /\ Len(calls) = 1
          /\ calls[1].prompt.mode = "windowed"
          /\ calls[1].prompt.start_dish = (batch_number(req) - 1) * dishes_per_batch + 1
          /\ calls[1].prompt.total_context = JAbsent
    /\ (BatchAfterFailedProbe /\ pc = "done" /\ calls # <<>>) =>
          resp = MenuRespond(req, answer)

\* C13: a count-only probe always ends in an outcome for that request, and a
\* failed probe never blocks later batches: a following batch request for the
\* same image, carrying no total, is sent to the provider like any other,
\* with no total_dishes hint in its prompt.
C13_ProbeEndsAndNeverBlocks ==
    /\ ProbeServed ~> ProbeEnded
    /\ []C13_ProbeNeverBlocks

C13_Witness ==
    /\ BatchAfterFailedProbe /\ "total_dishes" \in DOMAIN req
    /\ pc = "done" /\ Len(calls) = 1
    /\ resp.statuses = <<200>> /\ resp.body.kind = "batch"
    /\ resp.body.menu_items # JList(<<>>)

\* a count-only probe has been answered with a single 200
ProbeOk ==
    /\ pc = "done" /\ endpoint = "menu" /\ count_only(req)
    /\ resp.statuses = <<200>>

\* C14 as stated: every successful count_only response carries a
\* total_dishes that is an integer >= 0, whatever the provider returned, and
\* 0 when the provider's document omits total_dishes.
C14_CountIsNatural ==
    ProbeOk =>
        /\ resp.body.kind = "count"
        /\ resp.body.total_dishes.t = "int"
        /\ resp.body.total_dishes.n >= 0
        /\ "total_dishes" \notin DOMAIN ParsedDoc.f =>
               resp.body.total_dishes = JInt(0)

\* batch_dish_details has answered the current request with a 200
BatchDetailsOk ==
    /\ pc = "done" /\ endpoint = "svc_batch"
    /\ resp.statuses = <<200>>

\* C18 as stated: batch_dish_details returns an array with exactly one
\* enrichment object per input dish, in the order of the input dishes,
\* whatever the provider returned.
C18_OnePerDishInOrder ==
    BatchDetailsOk =>
        /\ resp.body.details.kind = "array"
        /\ resp.body.details = DetailArray(req.dishes)

\* endpoints whose provider is Gemini; the provider of "vision" is the
\* Vision API
GeminiEndpoints == {"menu", "ocr", "service", "dish", "svc_dish", "svc_batch"}

\* the provider calls among the calls of the current request (the image
\* download of ocr_endpoint is no provider call)
IsProviderCall(c) == c.model # "download"
ProviderCalls == SelectSeq(calls, IsProviderCall)

\* the request being served needs a credential that is not configured
GeminiKeyMissing == pc # "idle" /\ endpoint \in GeminiEndpoints /\ ~gemini_key
VisionKeyMissing == pc # "idle" /\ endpoint = "vision" /\ ~vision_key

\* no provider call, and the response (once written) is one 500 with an
\* error body
FailsWithoutCall ==
    /\ pc # "calling"
    /\ ProviderCalls = <<>>
    /\ pc = "done" => (resp.statuses = <<500>> /\ resp.body.kind = "error")

\* C15 as stated: with the provider credential missing the request fails
\* with HTTP 500 and an error body and issues no provider call, on every
\* endpoint including the single-shot Vision OCR path.
C15_MissingKeyIs500 ==
    (GeminiKeyMissing \/ VisionKeyMissing) => FailsWithoutCall

\* C15 amended: with GEMINI_API_KEY (gemini_api_key.json) missing, every
\* Gemini endpoint fails with HTTP 500 and an error body and issues no
\* provider call; with GOOGLE_VISION_API_KEY missing, the Vision OCR server
\* issues no provider call either but answers HTTP 200 with mock data.
C15_MissingKeyPerEndpoint ==
    /\ GeminiKeyMissing => FailsWithoutCall
    /\ VisionKeyMissing =>
          /\ pc = "done"
          /\ calls = <<>>
          /\ resp.statuses = <<200>>
          /\ resp.body.source = "mock_data"

C15_Witness ==
    /\ GeminiKeyMissing /\ endpoint = "service" /\ pc = "done"
    /\ "image_url" \in DOMAIN req /\ calls = <<DownloadCall(req.image_url)>>
    /\ resp.statuses = <<500>>
    /\ prev.endpoint = "vision" /\ ~prev.called
    /\ prev.resp.body.source = "mock_data"

\* the request in flight has got a failed answer: a timeout, a connection
\* failure, a non-200 status or a 200 without usable JSON
FailedAnswerNow == pc = "done" /\ ProviderCalls # <<>> /\ IsFailureAnswer(answer)

\* the step that takes the provider's answer ends the request and issues no
\* further call
C16_AnswerEndsRequest ==
    pc = "calling" => (pc' = "done" /\ calls' = calls)

\* C16: each client request issues at most one provider call; after a
\* timeout, a connection failure, a non-200 status or malformed provider JSON
\* the handler issues no second call for the same request.
C16_AtMostOneCall ==
    /\ [](Len(ProviderCalls) <= 1)
    /\ [][C16_AnswerEndsRequest]_vars

C16_Witness ==
    /\ FailedAnswerNow /\ endpoint = "vision" /\ answer.kind = "http"
    /\ answer.status = 503 /\ Len(ProviderCalls) = 1
    /\ prev.endpoint = "menu" /\ prev.outcome = "failed"

\* every provider call of the current request was made with a timeout
CallsHaveTimeout ==
    \A i \in 1..Len(calls) : IsProviderCall(calls[i]) => calls[i].timeout > 0

\* C17 as stated: every provider call is bounded by an explicit timeout, so
\* a request whose provider never answers still ends (with a timeout failure
\* written to its caller), on every endpoint that calls a provider.
C17_EveryCallTimesOut ==
    /\ []CallsHaveTimeout
    /\ (pc = "calling") ~> (pc = "done" /\ resp.statuses # <<>>)

\* the provider answered the menu request with a 200 whose text, fence
\* removed, is no JSON document (or whose fence cannot be removed)
UnparseableText ==
    /\ pc = "done" /\ endpoint = "menu"
    /\ answer.kind = "http" /\ answer.status = 200 /\ answer.envelope = "text"
    /\ LET sf == StripFence(Strip(answer.text))
       IN ~sf.ok \/ ~JsonLoads(sf.text).ok

\* C19: provider text that is no parseable JSON is never turned into a
\* success: the response is one HTTP 500 with an error body (the JSON parse
\* diagnostic when json.loads rejected the text), never a 200 with empty or
\* default data.
C19_UnparseableIsError ==
    UnparseableText =>
        /\ resp.statuses = <<500>>
        /\ resp.body.kind = "error"
        /\ StripFence(Strip(answer.text)).ok => resp.body.error = "JSON parse error"

C19_Witness ==
    /\ UnparseableText /\ ~count_only(req)
    /\ answer.text = <<XX>>
    /\ resp = Fail500("JSON parse error", 0)

\* envelopes that are well formed but hold no text: no candidates, a
\* candidate without content/parts, an empty parts list (Gemini); no
\* responses, no text annotations (Vision)
EmptyEnvelopes ==
    {"no_candidates", "no_content", "empty_parts", "no_responses", "no_annotations"}

\* the provider answered the current request with such an envelope
EmptyEnvelopeNow ==
    /\ pc = "done" /\ answer.kind = "http" /\ answer.status = 200
    /\ answer.envelope \in EmptyEnvelopes

\* C20: a well-formed but logically empty provider envelope is treated as a
\* failure: the request ends with an error response (one HTTP 500 with an
\* error body), never with a 200.
C20_EmptyEnvelopeIsError ==
    EmptyEnvelopeNow =>
        /\ resp.statuses = <<500>>
        /\ resp.body.kind = "error"
        /\ endpoint = "vision" =>
              ~CacheHas(ocr_cache, Md5(DropDataUrlPrefix(req.image)))

C20_Witness ==
    /\ EmptyEnvelopeNow /\ endpoint = "menu" /\ answer.envelope = "empty_parts"
    /\ resp = Fail500("list index out of range", 0)
    /\ prev.endpoint = "vision" /\ prev.called
    /\ prev.resp = VisionError("No text found in image")

\* the provider answered the menu request with a 200 whose text begins with
\* a fence marker
FencedAnswerNow ==
    /\ pc = "done" /\ endpoint = "menu"
    /\ answer.kind = "http" /\ answer.status = 200 /\ answer.envelope = "text"
    /\ StartsWithFence(Strip(answer.text))

\* C21 as stated: for every provider text that begins with a fence marker
\* (also a fenced block on one line, or one without a trailing fence) the
\* strip step itself never makes the request fail.
C21_StripNeverFails ==
    FencedAnswerNow =>
        /\ StripFence(Strip(answer.text)).ok
        /\ resp # Fail500("list index out of range", 0)

\* the entries ocr_cache holds for the payload of the current request
EntriesForPayload ==
    {e \in ocr_cache : e.key = Md5(DropDataUrlPrefix(req.image))}

\* two /ocr requests with the same payload have reached the server together:
\* HTTPServer serves them one after the other, in either order; the first is
\* the exchange before, the second the request now finished.  The
\* credential is configured and the provider answered every call of the two
\* with text annotations.
TwoSamePayloadServed ==
    /\ SameImageAgain /\ vision_key
    /\ prev.called => prev.resp.statuses = <<200>>
    /\ prev.called => prev.resp.body.source = "google_vision"
    /\ calls # <<>> =>
          (answer.kind = "http" /\ answer.status = 200 /\ answer.envelope = "text")

C23_EntriesKept == \A e \in ocr_cache : e \in ocr_cache'

\* a request arriving while its fingerprint has an entry is a cache hit: it
\* is answered with the stored value and calls no provider
C23_EntryMeansHit ==
    (pc = "idle" /\ endpoint' = "vision"
        /\ CacheHas(ocr_cache, Md5(DropDataUrlPrefix(req'.image))))
      => /\ pc' = "done"
         /\ calls' = <<>>
         /\ resp' = VisionSuccess(CacheGet(ocr_cache, Md5(DropDataUrlPrefix(req'.image))))

\* C23: the result cache never evicts: once a fingerprint has an entry, after
\* any further requests it still has that entry with the same value, and
\* every later request with that payload is a cache hit.
C23_CacheNeverEvicts == [][C23_EntriesKept /\ C23_EntryMeansHit]_vars

C23_Witness ==
    /\ Cardinality(ocr_cache) = 2
    /\ pc = "done" /\ endpoint = "vision" /\ calls = <<>>
    /\ resp = VisionSuccess(CacheGet(ocr_cache, Md5(DropDataUrlPrefix(req.image))))
    /\ resp.body.timestamp = clock - 2

\* the steps of the credential chain that were available to build_provider
ServiceAccountOk == cfg.sa_file /\ cfg.sdk_ok
ApiKeyOk == cfg.api_key

\* which client the chain ended with
BuiltServiceAccount ==
    built.kind = "provider" /\ built.class = "GoogleVisionApiKeyProvider" /\ built.use_sdk
BuiltApiKey ==
    built.kind = "provider" /\ built.class = "GoogleVisionApiKeyProvider" /\ ~built.use_sdk
MockUsed == ran.kind = "results" /\ ran.source = "mock"

\* C24 as stated: the API-key client is constructed only when the
\* service-account file is absent or its construction failed, the mock
\* client is used only after both were unavailable, and a successful earlier
\* step is never skipped in favour of a later one.
C24_OrderedFallback ==
    (cfg.provider = "vision-api-key" /\ built.kind # "none") =>
        /\ BuiltApiKey => ~ServiceAccountOk
        /\ MockUsed => (~ServiceAccountOk /\ ~ApiKeyOk)
        /\ ServiceAccountOk => BuiltServiceAccount
        /\ (~ServiceAccountOk /\ ApiKeyOk) => BuiltApiKey

\* C25 as stated: with no credentials the mock fallback never raises and is
\* deterministic: two /ocr requests with the same input are both answered
\* with status 200 and byte-identical bodies.
C25_MockDeterministic ==
    (SameImageAgain /\ ~vision_key) =>
        /\ prev.resp.statuses = <<200>>
        /\ resp.statuses = <<200>>
        /\ resp.body = prev.resp.body

\* the response of the batch handler as a function of the request payload,
\* the credential and the provider's answer alone
MenuResponseOf(payload, key, ans) ==
    IF ~key THEN Fail500("GEMINI_API_KEY not configured", 0)
    ELSE IF ~B64Decodes(DropDataUrlPrefix(payload.image))
    THEN Fail500("binascii.Error", 0)
    ELSE MenuRespond(payload, ans)

\* a finished request of the batch handler got exactly that response,
\* whatever was served before it
C26_ResponseOfRequestAlone ==
    (pc = "done" /\ endpoint = "menu") =>
        /\ resp = MenuResponseOf(req, gemini_key, answer)
        /\ calls # <<>> => calls = <<MenuCall(req)>>

\* C26: batch requests are independent: the handler keeps no state between
\* requests, so the response to a request is determined by its payload, the
\* credential and the provider's answer to it, whatever requests of this or
\* other sessions were served before.
C26_BatchesIndependent ==
    /\ []C26_ResponseOfRequestAlone
    /\ [][UNCHANGED ServerState]_vars

C26_Witness ==
    /\ AsksBeyondFinal /\ pc = "done"
    /\ resp.statuses = <<200>> /\ resp.body.kind = "batch"
    /\ resp.body.menu_items # JList(<<>>)
    /\ resp.body.has_more = JBool(TRUE)

----------------------------------------------------------------------------
(* One status line per request                                             *)

\* C27: a request to the batch menu handler or to the single-shot Gemini
\* handler that has ended was answered with exactly one HTTP status line:
\* after the 200 status no second status is sent.
C27_OneStatusLine ==
    (pc = "done" /\ endpoint \in {"menu", "ocr"}) => Len(resp.statuses) = 1

----------------------------------------------------------------------------
(* What ocr_cache holds                                                    *)

\* every entry is a success result of the provider, filed under the
\* fingerprint of a payload
EntriesAreProviderResults ==
    \A e \in ocr_cache :
        /\ e.value.success /\ e.value.source = "google_vision"
        /\ \E i \in Images : e.key = Md5(DropDataUrlPrefix(i))

\* a request answered without a provider call while its fingerprint has an
\* entry got that entry's value, which is no mock data
HitIsOwnEntry ==
    (pc = "done" /\ endpoint = "vision" /\ calls = <<>>
        /\ CacheHas(ocr_cache, Md5(DropDataUrlPrefix(req.image))))
      => /\ resp.body = CacheGet(ocr_cache, Md5(DropDataUrlPrefix(req.image)))
         /\ resp.body.source # "mock_data"

\* an entry that a step adds was produced in that step from the provider's
\* answer to the call made for the current payload, whose fingerprint is
\* the entry's key
NewEntriesFromOwnCall ==
    \A e \in ocr_cache' \ ocr_cache :
        /\ pc = "calling" /\ endpoint = "vision"
        /\ calls = <<VisionCall(req)>>
        /\ e.key = Md5(calls[1].image)
        /\ answer'.kind = "http" /\ answer'.status = 200
        /\ answer'.envelope = "text"
        /\ e.value = VisionResult(answer'.description, clock)
        /\ resp' = VisionSuccess(e.value)

\* C28: every entry of ocr_cache is a success result with source
\* google_vision, produced by a provider call for the payload whose hash is
\* the entry's key; mock and error results are never stored, so a cache hit
\* never returns mock data or the result of another payload.
C28_CacheHoldsProviderResults ==
    /\ [](EntriesAreProviderResults /\ HitIsOwnEntry)
    /\ [][NewEntriesFromOwnCall]_vars

\* a cache hit served after the fallback to mock data and an error were
\* answered for other requests
C28_Witness ==
    /\ pc = "done" /\ endpoint = "vision" /\ calls = <<>>
    /\ ocr_cache # {}
    /\ resp.body \in {e.value : e \in ocr_cache}
    /\ resp.body.source = "google_vision"
    /\ prev.endpoint = "vision" /\ prev.called
    /\ prev.resp.statuses = <<200>>
    /\ prev.resp.body.source = "mock_data"

----------------------------------------------------------------------------
(* Every POST to the Vision OCR server is answered                         *)

\* C29: every POST handled by OCRHandler eventually ends with exactly one
\* HTTP response, for every request path and every provider outcome: a
\* handler that returned has written one status line, and a handler waiting
\* for a provider eventually returns.
C29_EveryPostAnswered ==
    /\ [](pc = "done" => Len(resp.statuses) = 1)
    /\ (pc = "calling" ~> pc = "done")

----------------------------------------------------------------------------
(* The credential stays out of response bodies                             *)

\* the body written for the current request is an error body whose message
\* embeds the text of a transport exception that quotes the URL of the
\* provider call, and with it the value of GEMINI_API_KEY
BodyQuotesKey ==
    /\ resp.statuses # <<>> /\ resp.body.kind = "error"
    /\ \E exc \in ExceptionTexts :
         /\ QuotesRequestUrl(exc)
         /\ resp.body.error \in {exc, FailedToConnect(exc)}

\* C30: no response body of a Gemini endpoint contains the GEMINI_API_KEY
\* value, error bodies built from the message of a transport exception
\* included.
C30_NoKeyInBody ==
    (pc = "done" /\ endpoint \in GeminiEndpoints) => ~BodyQuotesKey

====
